---- MODULE Spec2Model ----
(***************************************************************************)
(* SmartSort analysis pipeline: the result cache and the session table    *)
(* (backend/database_manager.py), the analysis run                         *)
(* (backend/file_analyzer.py), the duplicate / similarity grouper          *)
(* (backend/data_cleaner.py), the name classifier                          *)
(* (backend/classifier.py), the worker count of the analyzer and the      *)
(* serial / parallel switch (backend/smart_parallel_analyzer.py).          *)
(*                                                                         *)
(* Strings are sequences of one-character strings.  Floats that the code   *)
(* prints (st_mtime) are kept as their decimal digits; similarity scores   *)
(* are exact fractions <<num, den>>.                                       *)
(***************************************************************************)
EXTENDS Integers, Sequences, FiniteSets, TLC

VARIABLES
    \* ---- result cache (database_manager.py) and the file system it stats
    fs,            \* path -> Missing or the os.stat() result of the file
    file_cache,    \* rows of table file_cache, in insertion (id) order
    saved_stat,    \* history: saved_stat[i] is the stat read when row i was inserted
    now,           \* CURRENT_TIMESTAMP, one-second resolution
    ret,           \* the last cache call and what it returned
    \* ---- one AdvancedFileAnalyzer and the directory it analyses
    disk,          \* file name -> Missing or the file's content
    chunk_size,    \* self.chunk_size
    pc,            \* where analyze_directory is
    file_chunks,   \* the chunks still to process, the current one first
    futures,       \* files of the current chunk submitted and not yet analysed
    finished,      \* finished futures not yet yielded by as_completed
    results,       \* results of _process_chunk for the current chunk
    all_results,   \* all_results of analyze_directory
    progress,      \* self.progress: [processed, total]
    last_analysis, \* self.last_analysis
    run,           \* history: number of analyze_directory calls started
    modified,      \* history: the tree changed since the first run started
    cache_lookups, \* history: files looked up in the cache during this run
    changes,       \* history: number of changes made to the tree
    computed,      \* history: files fingerprinted and classified during this run
    directory,     \* os.path.exists(directory_path)
    file_paths,    \* file_paths of analyze_directory: the (path, size) pairs discovered
    failed,        \* history: files that were missing or unreadable when analysed
    organized,     \* history: the arguments of the _organize_results calls of this run
    \* ---- one AdvancedDataCleaner call (data_cleaner.py)
    files,         \* the list of file records passed in
    issues,        \* what detect_comprehensive_issues returned
    similarity,    \* the last _calculate_file_similarity call and its result
    \* ---- classify_file (classifier.py)
    classified_file, \* the file name passed in
    classification,  \* the last classify_file call and its outcome
    \* ---- table analysis_sessions (database_manager.py)
    analysis_sessions, \* rows of table analysis_sessions, in insertion (id) order
    clock,             \* the reading of datetime.now().timestamp()
    saved,             \* the last save_analysis call and its outcome
    \* ---- the worker count of one AdvancedFileAnalyzer (file_analyzer.py)
    cpus,              \* what cpu_count() returns
    num_workers,       \* self.num_workers
    original_workers,  \* original_workers of benchmark_performance
    worker_counts,     \* the worker counts benchmark_performance has still to try
    executor,          \* the ThreadPoolExecutor of _process_chunk: [max_workers, pending, running]
    worker_pc,         \* position: "new", "ready", "benchmark"
    \* ---- one SmartParallelAnalyzer.analyze_files call (smart_parallel_analyzer.py)
    max_workers,        \* self.max_workers
    parallel_threshold, \* self.parallel_threshold
    smart_paths,        \* file_paths of analyze_files
    smart_chunks,       \* chunks of _process_parallel
    smart_futures,      \* worker ids whose future is not done
    smart_done,         \* worker ids whose future is done and not yet yielded
    smart_results,      \* results of _process_parallel / _process_serial
    smart_return,       \* what analyze_files returned
    smart_pc            \* position: "idle", "parallel", "categorize", "done"

cache_vars == <<fs, file_cache, saved_stat, now, ret>>
run_vars == <<disk, chunk_size, pc, file_chunks, futures, finished, results,
              all_results, progress, last_analysis, run, modified,
              cache_lookups, changes, computed, directory, file_paths, failed,
              organized>>
grouper_vars == <<files, issues, similarity>>
classifier_vars == <<classified_file, classification>>
session_vars == <<analysis_sessions, clock, saved>>
worker_vars == <<cpus, num_workers, original_workers, worker_counts, executor, worker_pc>>
smart_vars == <<max_workers, parallel_threshold, smart_paths, smart_chunks,
                smart_futures, smart_done, smart_results, smart_return, smart_pc>>
vars == <<cache_vars, run_vars, grouper_vars, classifier_vars, session_vars,
          worker_vars, smart_vars>>

\* ------------------------------------------------------------------------
\* Bounds
\* ------------------------------------------------------------------------
MaxRows == 2
MaxClock == 1
MaxRuns == 2
MaxChunkSize == 2
MaxChanges == 1
MaxExactFiles == 4
MaxSimilarFiles == 3
MaxNamedFiles == 2
MaxBucketFiles == 4

\* ------------------------------------------------------------------------
\* Small helpers
\* ------------------------------------------------------------------------
Range(s) == {s[i] : i \in 1..Len(s)}

SetMax(S) == CHOOSE x \in S : \A y \in S : y <= x

DigitChars == <<"0", "1", "2", "3", "4", "5", "6", "7", "8", "9">>

\* str(n) of a non-negative int
RECURSIVE str_int(_)
str_int(n) ==
    IF n < 10 THEN <<DigitChars[n + 1]>>
    ELSE str_int(n \div 10) \o <<DigitChars[(n % 10) + 1]>>

\* str(x) of a float: integer part, ".", the fractional digits of its repr
str_float(x) ==
    str_int(x.sec) \o <<".">> \o [i \in 1..Len(x.frac) |-> DigitChars[x.frac[i] + 1]]

\* ------------------------------------------------------------------------
\* The file system seen through os.stat
\* ------------------------------------------------------------------------
Paths == {"p1", "p2"}
MutablePaths == {"p1"}

Missing == [exists |-> FALSE]

\* 1.1 and 1.12 seconds, as Python prints them
MTimeA == [sec |-> 1, frac |-> <<1>>]
MTimeB == [sec |-> 1, frac |-> <<1, 2>>]

FileStats ==
    { [exists |-> TRUE, st_mtime |-> MTimeA, st_size |-> 23],
      [exists |-> TRUE, st_mtime |-> MTimeB, st_size |-> 3],
      [exists |-> TRUE, st_mtime |-> MTimeA, st_size |-> 3] }

FixedStat == [exists |-> TRUE, st_mtime |-> MTimeA, st_size |-> 3]

Results == {"r1", "r2"}
Sessions == {"s1", "s2"}

\* ------------------------------------------------------------------------
\* EnhancedAnalysisDatabase
\* ------------------------------------------------------------------------
\* hashlib.sha256 over the bytes fed by update(); taken to be collision free,
\* so the digest is identified with the byte string that was hashed.
sha256(bytes) == <<"sha256", bytes>>

\* _file_hash once os.stat has succeeded: two update() calls feed the
\* concatenation str(st_mtime) + str(st_size), with no separator.
_file_hash(stat) ==
    sha256(str_float(stat.st_mtime) \o str_int(stat.st_size))

json_dumps(result) == <<"json", result>>
json_loads(text) == text[2]

NoCall == [op |-> "none"]
Raised == "FileNotFoundError"
None == "None"

\* rows of file_cache that the SELECT of get_cached_file matches
MatchingRows(filepath, filehash) ==
    { i \in 1..Len(file_cache) :
        /\ file_cache[i].filepath = filepath
        /\ file_cache[i].filehash = filehash }

\* ORDER BY timestamp DESC LIMIT 1: a row with the greatest timestamp; rows
\* with equal timestamps are in no defined order, so any of them can be first.
FirstByTimestampDesc(rows) ==
    { i \in rows : \A j \in rows : file_cache[j].timestamp <= file_cache[i].timestamp }

\* INSERT OR REPLACE on a unique filepath, as the older AnalysisDatabase does
InsertOrReplaceRow(table, row) ==
    Append(SelectSeq(table, LAMBDA r : r.filepath # row.filepath), row)

\* INSERT INTO file_cache: the table has no uniqueness constraint
InsertRow(table, row) == Append(table, row)

save_file_result(filepath, result, session_id) ==
    /\ Len(file_cache) < MaxRows
    /\ IF ~fs[filepath].exists
       THEN /\ ret' = [op |-> "save", path |-> filepath, val |-> Raised]
            /\ UNCHANGED <<file_cache, saved_stat>>
       ELSE /\ file_cache' = InsertRow(file_cache,
                   [id |-> Len(file_cache) + 1,
                    filepath |-> filepath,
                    filehash |-> _file_hash(fs[filepath]),
                    result |-> json_dumps(result),
                    session_id |-> session_id,
                    timestamp |-> now])
            /\ saved_stat' = Append(saved_stat, fs[filepath])
            /\ ret' = [op |-> "save", path |-> filepath, val |-> None]
    /\ UNCHANGED <<fs, now>>
    /\ UNCHANGED <<run_vars, grouper_vars, classifier_vars, session_vars, worker_vars, smart_vars>>

get_cached_file(filepath) ==
    /\ IF ~fs[filepath].exists
       THEN ret' = [op |-> "get", path |-> filepath, val |-> Raised]
       ELSE LET rows == MatchingRows(filepath, _file_hash(fs[filepath]))
            IN  IF rows = {}
                THEN ret' = [op |-> "get", path |-> filepath, val |-> None]
                ELSE \E i \in FirstByTimestampDesc(rows) :
                        ret' = [op |-> "get", path |-> filepath,
                                val |-> json_loads(file_cache[i].result)]
    /\ UNCHANGED <<fs, file_cache, saved_stat, now>>
    /\ UNCHANGED <<run_vars, grouper_vars, classifier_vars, session_vars, worker_vars, smart_vars>>

\* get_session_files: the ids of the rows of the session (the row order of
\* the SELECT plays no part in what is retrievable)
SessionRows(session_id) ==
    { i \in 1..Len(file_cache) : file_cache[i].session_id = session_id }

get_session_files(session_id) ==
    /\ ret' = [op |-> "session_files", path |-> session_id,
               val |-> {file_cache[i] : i \in SessionRows(session_id)}]
    /\ UNCHANGED <<fs, file_cache, saved_stat, now>>
    /\ UNCHANGED <<run_vars, grouper_vars, classifier_vars, session_vars, worker_vars, smart_vars>>

\* the clock behind CURRENT_TIMESTAMP advances by a second
Tick ==
    /\ now < MaxClock
    /\ now' = now + 1
    /\ ret' = NoCall
    /\ UNCHANGED <<fs, file_cache, saved_stat>>
    /\ UNCHANGED <<run_vars, grouper_vars, classifier_vars, session_vars, worker_vars, smart_vars>>

\* the file at filepath is rewritten (new mtime and size) or removed
os_write(filepath, stat) ==
    /\ filepath \in MutablePaths
    /\ fs[filepath] # stat
    /\ fs' = [fs EXCEPT ![filepath] = stat]
    /\ ret' = NoCall
    /\ UNCHANGED <<file_cache, saved_stat, now>>
    /\ UNCHANGED <<run_vars, grouper_vars, classifier_vars, session_vars, worker_vars, smart_vars>>

os_remove(filepath) ==
    /\ filepath \in MutablePaths
    /\ fs[filepath].exists
    /\ fs' = [fs EXCEPT ![filepath] = Missing]
    /\ ret' = NoCall
    /\ UNCHANGED <<file_cache, saved_stat, now>>
    /\ UNCHANGED <<run_vars, grouper_vars, classifier_vars, session_vars, worker_vars, smart_vars>>

NotRun == [op |-> "none"]

\* no cleaner call is made in the cache and analyzer runs
GrouperIdle ==
    /\ files = <<>>
    /\ issues = NotRun
    /\ similarity = NotRun

\* classify_file is not called
ClassifierIdle ==
    /\ classified_file = <<>>
    /\ classification = NotRun

\* no session is saved
SessionsIdle ==
    /\ analysis_sessions = <<>>
    /\ clock = 0
    /\ saved = NotRun

\* the analyzer is constructed and idle; it plays no part in the cache runs
WorkersIdle ==
    /\ cpus = 0
    /\ num_workers = 0
    /\ original_workers = 0
    /\ worker_counts = <<>>
    /\ executor = NotRun
    /\ worker_pc = "new"

SmartIdle ==
    /\ max_workers = 0
    /\ parallel_threshold = 0
    /\ smart_paths = <<>>
    /\ smart_chunks = <<>>
    /\ smart_futures = {}
    /\ smart_done = {}
    /\ smart_results = <<>>
    /\ smart_return = NotRun
    /\ smart_pc = "idle"

RunIdle ==
    /\ directory = FALSE
    /\ file_paths = <<>>
    /\ failed = {}
    /\ organized = <<>>
    /\ disk = [f \in {} |-> Missing]
    /\ chunk_size = 0
    /\ pc = "idle"
    /\ file_chunks = <<>>
    /\ futures = {}
    /\ finished = {}
    /\ results = <<>>
    /\ all_results = <<>>
    /\ progress = [processed |-> 0, total |-> 0]
    /\ last_analysis = [files_processed |-> 0]
    /\ run = 0
    /\ modified = FALSE
    /\ cache_lookups = {}
    /\ changes = 0
    /\ computed = {}

InitCache ==
    /\ WorkersIdle
    /\ SmartIdle
    /\ RunIdle
    /\ GrouperIdle
    /\ ClassifierIdle
    /\ SessionsIdle
    /\ fs \in [Paths -> FileStats \cup {Missing}]
    /\ \A p \in Paths \ MutablePaths : fs[p] = FixedStat
    /\ file_cache = <<>>
    /\ saved_stat = <<>>
    /\ now = 0
    /\ ret = NoCall

NextCache ==
    \/ \E p \in Paths, r \in Results, s \in Sessions : save_file_result(p, r, s)
    \/ \E p \in Paths : get_cached_file(p)
    \/ \E s \in Sessions : get_session_files(s)
    \/ Tick
    \/ \E p \in Paths, st \in FileStats : os_write(p, st)
    \/ \E p \in Paths : os_remove(p)

SpecCache == InitCache /\ [][NextCache]_vars

\* ------------------------------------------------------------------------
\* Claims about the result cache
\* ------------------------------------------------------------------------
\* rows stored for filepath while the file had the stat it has now
StoredForCurrentStat(filepath) ==
    { i \in 1..Len(file_cache) :
        /\ file_cache[i].filepath = filepath
        /\ saved_stat[i] = fs[filepath] }

\* C1: a get_cached_file(path) made while the file's mtime and size are those
\* of a save returns a record saved for them; when the file's mtime or size
\* is one for which nothing was stored, get_cached_file(path) returns None.
C1_LookupAfterStore ==
    (ret.op = "get" /\ fs[ret.path].exists) =>
        IF StoredForCurrentStat(ret.path) # {}
        THEN ret.val \in { json_loads(file_cache[i].result) :
                              i \in StoredForCurrentStat(ret.path) }
        ELSE ret.val = None

\* C2: when several stored entries for a path match the file's current
\* fingerprint, get_cached_file returns the one stored last, also when two
\* of them were stored within the same timestamp tick.
C2_MostRecentMatch ==
    (ret.op = "get" /\ fs[ret.path].exists) =>
        LET rows == MatchingRows(ret.path, _file_hash(fs[ret.path]))
        IN  rows # {} => ret.val = json_loads(file_cache[SetMax(rows)].result)

IsPrefix(s, t) == Len(s) <= Len(t) /\ SubSeq(t, 1, Len(s)) = s

\* C3 (as stated): every save_file_result call adds exactly one new cache
\* entry and leaves every earlier entry unchanged.
C3_EverySaveAppends ==
    [][ret'.op = "save" =>
          /\ Len(file_cache') = Len(file_cache) + 1
          /\ IsPrefix(file_cache, file_cache')]_vars

\* C3 (amended): a save_file_result call whose file can be stat'ed adds
\* exactly one entry, one whose file cannot be stat'ed raises and adds none;
\* no step of the cache changes or removes an earlier entry, and
\* get_session_files returns every entry of the session, stale ones included.
C3_AppendOnly ==
    /\ [][/\ IsPrefix(file_cache, file_cache')
          /\ (ret'.op = "save" /\ ret'.val = None)
                => Len(file_cache') = Len(file_cache) + 1
          /\ (ret'.op = "save" /\ ret'.val = Raised)
                => file_cache' = file_cache
          /\ ret'.op # "save" => file_cache' = file_cache]_vars
    /\ [](ret.op = "session_files" =>
            \A i \in 1..Len(file_cache) :
                file_cache[i].session_id = ret.path => file_cache[i] \in ret.val)

\* a second entry has been saved for a path whose first entry is stale, and
\* the session's files have been listed
C3_Witness ==
    /\ ret.op = "session_files"
    /\ \E i, j \in 1..Len(file_cache) :
          /\ i < j
          /\ file_cache[i].filepath = file_cache[j].filepath
          /\ file_cache[i].session_id = ret.path
          /\ saved_stat[i] # fs[file_cache[i].filepath]
          /\ file_cache[i] \in ret.val

\* C4: get_cached_file never fails; for a path whose file has vanished it
\* returns None instead of raising.
C4_LookupNeverRaises ==
    ret.op = "get" => ret.val # Raised

\* ------------------------------------------------------------------------
\* AdvancedFileAnalyzer (file_analyzer.py)
\* ------------------------------------------------------------------------
\* The directory holds three visible files and a hidden one.  A file name is
\* kept as what the analyzer reads off it: its extension and the keywords of
\* content_patterns / the name patterns that occur in the lowercased name.
RunFiles == {"f1", "f2", "f3", ".h"}
WalkOrder == <<"f1", ".h", "f2", "f3">>

FileNames ==
    [f \in RunFiles |->
        CASE f = "f1" -> [hidden |-> FALSE, extension |-> ".txt", words |-> {}]
          [] f = "f2" -> [hidden |-> FALSE, extension |-> ".py", words |-> {"report", "final"}]
          [] f = "f3" -> [hidden |-> FALSE, extension |-> ".zip", words |-> {"old"}]
          [] f = ".h" -> [hidden |-> TRUE, extension |-> "", words |-> {}]]

\* contents a file can have: the bytes, their number, and the keywords that
\* occur in the decoded text
\* (readable is FALSE for a file that os.stat sees and open() refuses)
Contents ==
    { [exists |-> TRUE, readable |-> TRUE, data |-> "d1", size |-> 10, words |-> {}],
      [exists |-> TRUE, readable |-> TRUE, data |-> "d2", size |-> 20, words |-> {"tax"}],
      [exists |-> TRUE, readable |-> FALSE, data |-> "d1", size |-> 10, words |-> {}],
      [exists |-> TRUE, readable |-> TRUE, data |-> "d3", size |-> 1048576, words |-> {}] }

HiddenContent ==
    [exists |-> TRUE, readable |-> TRUE, data |-> "d1", size |-> 10, words |-> {}]

md5(bytes) == <<"md5", bytes>>

file_categories ==
    << <<"Images", {".jpg", ".jpeg", ".png", ".gif", ".bmp", ".tiff", ".webp", ".svg", ".heic", ".raw"}>>,
       <<"Videos", {".mp4", ".avi", ".mov", ".mkv", ".wmv", ".flv", ".webm", ".m4v"}>>,
       <<"Audio", {".mp3", ".wav", ".flac", ".aac", ".ogg", ".wma", ".m4a"}>>,
       <<"Documents", {".pdf", ".doc", ".docx", ".txt", ".rtf", ".odt", ".pages"}>>,
       <<"Spreadsheets", {".xls", ".xlsx", ".csv", ".ods", ".numbers"}>>,
       <<"Presentations", {".ppt", ".pptx", ".odp", ".key"}>>,
       <<"Code", {".py", ".js", ".html", ".css", ".java", ".cpp", ".c", ".php", ".rb", ".go", ".rs", ".swift"}>>,
       <<"Archives", {".zip", ".rar", ".7z", ".tar", ".gz", ".bz2"}>>,
       <<"Executables", {".exe", ".dmg", ".app", ".deb", ".rpm"}>> >>

content_patterns ==
    << <<"Financial", {"invoice", "receipt", "bill", "tax", "statement", "payment", "bank", "transaction"}>>,
       <<"School", {"homework", "assignment", "midterm", "final", "quiz", "essay", "project", "study", "syllabus"}>>,
       <<"Work", {"meeting", "presentation", "report", "proposal", "contract", "deadline", "budget"}>>,
       <<"Personal", {"vacation", "family", "birthday", "wedding", "holiday", "photo", "memory"}>> >>

TextExtensions == {".txt", ".md", ".py", ".js", ".html", ".css"}

\* the least member of a set of indices, 0 when there is none
FirstIndex(idx) ==
    IF idx = {} THEN 0 ELSE CHOOSE i \in idx : \A j \in idx : i <= j

\* _analyze_file_content: the text of a text-like file that can be read
content_words(name, content) ==
    IF name.extension \in TextExtensions /\ content.readable THEN content.words ELSE {}

\* name_words / text_words: the keywords occurring in filename_lower / content_lower
_classify_file_advanced(name_words, extension, text_words) ==
    LET byContent == FirstIndex({i \in 1..Len(content_patterns) :
                        content_patterns[i][2] \cap (name_words \cup text_words) # {}})
        byType == FirstIndex({i \in 1..Len(file_categories) :
                        extension \in file_categories[i][2]})
    IN  IF byContent # 0 THEN content_patterns[byContent][1]
        ELSE IF {"screenshot", "screen shot"} \cap name_words # {} THEN "Screenshots"
        ELSE IF "untitled" \in name_words THEN "Needs_Attention"
        ELSE IF {"backup", "old", "temp", "tmp"} \cap name_words # {} THEN "Archive"
        ELSE IF byType # 0 THEN file_categories[byType][1]
        ELSE "Uncategorized"

LargeFile == 1048576

\* _generate_similarity_hash; the except branch is taken when open() raises
_generate_similarity_hash(file_path, file_size, content) ==
    IF ~content.readable THEN md5(<<file_path, ":", str_int(file_size)>>)
    ELSE IF file_size < LargeFile THEN md5(<<content.data>>)
    ELSE md5(<<str_int(file_size), ":", content.data, ":", content.data>>)

\* analyze_single_file_advanced
analyze_single_file_advanced(file_path) ==
    IF ~disk[file_path].exists
    THEN [path |-> file_path, status |-> "error", category |-> "Errors"]
    ELSE LET file_info == disk[file_path]
             name == FileNames[file_path]
         IN  [path |-> file_path,
              size |-> file_info.size,
              extension |-> name.extension,
              status |-> "analyzed",
              similarity_hash |->
                  _generate_similarity_hash(file_path, file_info.size, file_info),
              category |->
                  _classify_file_advanced(name.words, name.extension,
                                          content_words(name, file_info))]

\* sorted(file_data, key=size, reverse=True): stable, equal sizes keep their order
RECURSIVE SortBySizeDesc(_)
SortBySizeDesc(file_data) ==
    IF file_data = <<>> THEN <<>>
    ELSE LET rest == SortBySizeDesc(Tail(file_data))
             x == Head(file_data)
             before == {i \in 1..Len(rest) : rest[i][2] > x[2]}
             k == Cardinality(before)
         IN  SubSeq(rest, 1, k) \o <<x>> \o SubSeq(rest, k + 1, Len(rest))

\* _get_files_with_metadata: the visible files present, largest first
_get_files_with_metadata ==
    LET walked == SelectSeq(WalkOrder,
                    LAMBDA f : disk[f].exists /\ ~FileNames[f].hidden)
    IN  SortBySizeDesc([i \in 1..Len(walked) |-> <<walked[i], disk[walked[i]].size>>])

RECURSIVE SumSizes(_)
SumSizes(file_data) ==
    IF file_data = <<>> THEN 0 ELSE Head(file_data)[2] + SumSizes(Tail(file_data))

\* the loop of _create_optimized_chunks; size_threshold is total / parts
RECURSIVE PackChunks(_, _, _, _, _, _)
PackChunks(file_data, chunks, current_chunk, current_size, total, parts) ==
    IF file_data = <<>>
    THEN IF current_chunk # <<>> THEN Append(chunks, current_chunk) ELSE chunks
    ELSE LET file_path == Head(file_data)[1]
             size == Head(file_data)[2]
         IN  IF Len(current_chunk) >= chunk_size \/ current_size * parts >= total
             THEN PackChunks(Tail(file_data),
                             IF current_chunk # <<>> THEN Append(chunks, current_chunk)
                                                     ELSE chunks,
                             <<file_path>>, size, total, parts)
             ELSE PackChunks(Tail(file_data), chunks,
                             Append(current_chunk, file_path), current_size + size,
                             total, parts)

\* size_threshold = sum of the sizes / (len(file_data) // chunk_size + 1),
\* kept as the quotient <<sum, divisor>>
size_threshold(file_data) ==
    <<SumSizes(file_data), (Len(file_data) \div chunk_size) + 1>>

\* one chunk of the first chunk_size files, the rest left out
first_chunk_only(file_data) ==
    << [i \in 1..(IF Len(file_data) <= chunk_size THEN Len(file_data) ELSE chunk_size)
            |-> file_data[i][1]] >>

\* _create_optimized_chunks
_create_optimized_chunks(file_data) ==
    IF Len(file_data) <= chunk_size
    THEN << [i \in 1..Len(file_data) |-> file_data[i][1]] >>
    ELSE PackChunks(file_data, <<>>, <<>>, 0, size_threshold(file_data)[1],
                    size_threshold(file_data)[2])

\* _organize_results
_organize_results(all) ==
    LET idx == 1..Len(all)
        hashed == {i \in idx : "similarity_hash" \in DOMAIN all[i]}
        cats == {all[i].category : i \in idx}
        hashes == {all[i].similarity_hash : i \in hashed}
        group(h) == SelectSeq(all, LAMBDA r : "similarity_hash" \in DOMAIN r
                                              /\ r.similarity_hash = h)
    IN  [categories |-> [c \in cats |-> SelectSeq(all, LAMBDA r : r.category = c)],
         similarity_groups |->
             [h \in {g \in hashes : Len(group(g)) > 1} |-> group(h)]]

\* an update whose increment is lost
skip_update(p, increment) == p

\* AnalysisProgress.update: with self.lock: self.processed += increment
update(p, increment) == [p EXCEPT !.processed = @ + increment]

\* AnalysisProgress.get_progress: processed / total * 100, as the quotient
\* <<processed * 100, total>>; 0 when total is 0
get_progress(p) ==
    IF p.total > 0 THEN <<p.processed * 100, p.total>> ELSE <<0, 1>>

\* analyze_directory up to self.progress.total = len(file_paths); os.walk of
\* a path that does not exist yields nothing
StartRun ==
    /\ pc \in {"idle", "done"}
    /\ run < MaxRuns
    /\ file_paths' = _get_files_with_metadata
    /\ file_chunks' = _create_optimized_chunks(file_paths')
    /\ progress' = [progress EXCEPT !.total = Len(file_paths')]
    /\ pc' = "reset"
    /\ run' = run + 1
    /\ modified' = IF run = 0 THEN FALSE ELSE modified
    /\ computed' = {}
    /\ cache_lookups' = {}
    /\ failed' = {}
    /\ organized' = <<>>
    /\ UNCHANGED <<disk, chunk_size, futures, finished, results, all_results,
                   last_analysis, changes, directory>>
    /\ UNCHANGED <<cache_vars, grouper_vars, classifier_vars, session_vars, worker_vars, smart_vars>>

\* self.progress.processed = 0; all_results = []
ResetProcessed ==
    /\ pc = "reset"
    /\ progress' = [progress EXCEPT !.processed = 0]
    /\ all_results' = <<>>
    /\ pc' = "chunks"
    /\ UNCHANGED <<disk, chunk_size, file_chunks, futures, finished, results,
                   last_analysis, run, modified, cache_lookups, changes, computed>>
    /\ UNCHANGED <<directory, file_paths, failed, organized>>
    /\ UNCHANGED <<cache_vars, grouper_vars, classifier_vars, session_vars, worker_vars, smart_vars>>

\* _process_chunk: the pool is created and every file of the chunk submitted;
\* ThreadPoolExecutor(max_workers=0) raises ValueError for an empty chunk
SubmitChunk ==
    /\ pc = "chunks"
    /\ file_chunks # <<>>
    /\ IF Head(file_chunks) = <<>>
       THEN /\ pc' = "crashed"
            /\ UNCHANGED futures
       ELSE /\ pc' = "pool"
            /\ futures' = Range(Head(file_chunks))
    /\ results' = <<>>
    /\ UNCHANGED <<disk, chunk_size, file_chunks, finished, all_results, progress,
                   last_analysis, run, modified, cache_lookups, changes, computed>>
    /\ UNCHANGED <<directory, file_paths, failed, organized>>
    /\ UNCHANGED <<cache_vars, grouper_vars, classifier_vars, session_vars, worker_vars, smart_vars>>

\* a pool thread runs analyze_single_file_advanced on a submitted file; the
\* cache is not consulted
AnalyzeFile(file_path) ==
    /\ pc = "pool"
    /\ file_path \in futures
    /\ futures' = futures \ {file_path}
    /\ finished' = finished \cup {analyze_single_file_advanced(file_path)}
    /\ computed' = IF disk[file_path].exists THEN computed \cup {file_path} ELSE computed
    /\ failed' = IF ~disk[file_path].exists
                  THEN failed \cup {[path |-> file_path, reason |-> "vanished"]}
                  ELSE IF ~disk[file_path].readable
                  THEN failed \cup {[path |-> file_path, reason |-> "unreadable"]}
                  ELSE failed
    /\ UNCHANGED <<disk, chunk_size, pc, file_chunks, results, all_results, progress,
                   last_analysis, run, modified, cache_lookups, changes>>
    /\ UNCHANGED <<directory, file_paths, organized>>
    /\ UNCHANGED <<cache_vars, grouper_vars, classifier_vars, session_vars, worker_vars, smart_vars>>

\* as_completed yields a finished future: results.append, progress.update()
CollectResult(result) ==
    /\ pc = "pool"
    /\ result \in finished
    /\ finished' = finished \ {result}
    /\ results' = Append(results, result)
    /\ progress' = update(progress, 1)
    /\ UNCHANGED <<disk, chunk_size, pc, file_chunks, futures, all_results,
                   last_analysis, run, modified, cache_lookups, changes, computed>>
    /\ UNCHANGED <<directory, file_paths, failed, organized>>
    /\ UNCHANGED <<cache_vars, grouper_vars, classifier_vars, session_vars, worker_vars, smart_vars>>

\* _process_chunk returns; all_results.extend(chunk_results)
EndChunk ==
    /\ pc = "pool"
    /\ futures = {}
    /\ finished = {}
    /\ all_results' = all_results \o results
    /\ file_chunks' = Tail(file_chunks)
    /\ results' = <<>>
    /\ pc' = "chunks"
    /\ UNCHANGED <<disk, chunk_size, futures, finished, progress, last_analysis,
                   run, modified, cache_lookups, changes, computed>>
    /\ UNCHANGED <<directory, file_paths, failed, organized>>
    /\ UNCHANGED <<cache_vars, grouper_vars, classifier_vars, session_vars, worker_vars, smart_vars>>

\* results organized as soon as one chunk has been merged, inside the loop
FinishRunEarly ==
    /\ pc = "chunks"
    /\ all_results # <<>> \/ file_chunks = <<>>
    /\ last_analysis' =
          [files_processed |-> progress.total] @@ _organize_results(all_results)
    /\ organized' = Append(organized, all_results)
    /\ pc' = IF file_chunks = <<>> THEN "done" ELSE "chunks"
    /\ UNCHANGED <<disk, chunk_size, file_chunks, futures, finished, results,
                   all_results, progress, run, modified, cache_lookups, changes, computed>>
    /\ UNCHANGED <<directory, file_paths, failed>>
    /\ UNCHANGED <<cache_vars, grouper_vars, classifier_vars, session_vars, worker_vars, smart_vars>>

\* after the chunk loop: _organize_results and self.last_analysis
FinishRun ==
    /\ pc = "chunks"
    /\ file_chunks = <<>>
    /\ last_analysis' =
          [files_processed |-> progress.total] @@ _organize_results(all_results)
    /\ organized' = Append(organized, all_results)
    /\ pc' = "done"
    /\ UNCHANGED <<disk, chunk_size, file_chunks, futures, finished, results,
                   all_results, progress, run, modified, cache_lookups, changes, computed>>
    /\ UNCHANGED <<directory, file_paths, failed>>
    /\ UNCHANGED <<cache_vars, grouper_vars, classifier_vars, session_vars, worker_vars, smart_vars>>

\* a visible file of the tree is rewritten, created or removed
ChangeFile(f, content) ==
    /\ directory
    /\ ~FileNames[f].hidden
    /\ disk[f] # content
    /\ changes < MaxChanges
    /\ changes' = changes + 1
    /\ disk' = [disk EXCEPT ![f] = content]
    /\ modified' = TRUE
    /\ UNCHANGED <<chunk_size, pc, file_chunks, futures, finished, results,
                   all_results, progress, last_analysis, run, cache_lookups, computed>>
    /\ UNCHANGED <<directory, file_paths, failed, organized>>
    /\ UNCHANGED <<cache_vars, grouper_vars, classifier_vars, session_vars, worker_vars, smart_vars>>


\* the cache is constructed and never used by the analyzer
CacheIdle ==
    /\ fs = [p \in {} |-> Missing]
    /\ file_cache = <<>>
    /\ saved_stat = <<>>
    /\ now = 0
    /\ ret = NoCall

InitRun ==
    /\ WorkersIdle
    /\ SmartIdle
    /\ CacheIdle
    /\ GrouperIdle
    /\ ClassifierIdle
    /\ SessionsIdle
    /\ directory \in BOOLEAN
    /\ disk \in [RunFiles -> Contents \cup {Missing}]
    /\ IF directory THEN disk[".h"] = HiddenContent
                    ELSE \A f \in RunFiles : disk[f] = Missing
    /\ file_paths = <<>>
    /\ failed = {}
    /\ organized = <<>>
    /\ chunk_size \in 1..MaxChunkSize
    /\ pc = "idle"
    /\ file_chunks = <<>>
    /\ futures = {}
    /\ finished = {}
    /\ results = <<>>
    /\ all_results = <<>>
    /\ progress = [processed |-> 0, total |-> 0]
    /\ last_analysis = [files_processed |-> 0]
    /\ run = 0
    /\ modified = FALSE
    /\ cache_lookups = {}
    /\ changes = 0
    /\ computed = {}

NextRun ==
    \/ StartRun
    \/ ResetProcessed
    \/ SubmitChunk
    \/ \E f \in RunFiles : AnalyzeFile(f)
    \/ \E r \in finished : CollectResult(r)
    \/ EndChunk
    \/ FinishRun
    \/ \E f \in RunFiles, c \in Contents \cup {Missing} : ChangeFile(f, c)

SpecRun == InitRun /\ [][NextRun]_vars

\* ------------------------------------------------------------------------
\* Claims about the analysis run
\* ------------------------------------------------------------------------
\* C5: during a run each file is looked up in the cache before it is
\* fingerprinted and classified, and a second run over an unchanged tree
\* recomputes no file's fingerprint or category.
C5_SecondRunRecomputesNothing ==
    /\ computed \subseteq cache_lookups
    /\ (pc = "done" /\ run >= 2 /\ ~modified) => computed = {}

\* ------------------------------------------------------------------------
\* AdvancedDataCleaner (data_cleaner.py)
\* ------------------------------------------------------------------------
\* Fractions <<numerator, denominator>> in lowest terms stand for the floats
\* of the scores.
RECURSIVE GCD(_, _)
GCD(a, b) == IF b = 0 THEN a ELSE GCD(b, a % b)

Norm(x) == LET g == GCD(x[1], x[2]) IN IF g = 0 THEN x ELSE <<x[1] \div g, x[2] \div g>>
FAdd(x, y) == Norm(<<x[1] * y[2] + y[1] * x[2], x[2] * y[2]>>)
FMul(x, y) == Norm(<<x[1] * y[1], x[2] * y[2]>>)
FDiv(x, y) == Norm(<<x[1] * y[2], x[2] * y[1]>>)
FLess(x, y) == x[1] * y[2] < y[1] * x[2]
FEq(x, y) == x[1] * y[2] = y[1] * x[2]

Min(a, b) == IF a <= b THEN a ELSE b
Max(a, b) == IF a >= b THEN a ELSE b

\* str.lower() on the letters in use
LowerChar(c) == CASE c = "A" -> "a" [] c = "B" -> "b" [] c = "C" -> "c" [] OTHER -> c
lower(str) == [i \in 1..Len(str) |-> LowerChar(str[i])]

\* the members of a set of numbers in ascending order
RECURSIVE Ascending(_)
Ascending(S) ==
    IF S = {} THEN <<>>
    ELSE LET lo == CHOOSE x \in S : \A y \in S : x <= y
         IN  <<lo>> \o Ascending(S \ {lo})

\* the distinct members of a sequence, in order of first occurrence (the key
\* order of a dict filled while iterating the sequence)
RECURSIVE FirstOccurrences(_)
FirstOccurrences(keys) ==
    IF keys = <<>> THEN <<>>
    ELSE LET init == FirstOccurrences(SubSeq(keys, 1, Len(keys) - 1))
             last == keys[Len(keys)]
         IN  IF last \in Range(init) THEN init ELSE Append(init, last)

RECURSIVE Concat(_)
Concat(seqs) == IF seqs = <<>> THEN <<>> ELSE Head(seqs) \o Concat(Tail(seqs))

\* difflib.SequenceMatcher(None, a, b) for strings under 200 characters (no
\* junk, no popular elements).  Positions are 1-based, hi bounds exclusive.
RECURSIVE MatchLength(_, _, _, _, _, _)
MatchLength(a, b, i, j, ahi, bhi) ==
    IF i < ahi /\ j < bhi /\ a[i] = b[j]
    THEN 1 + MatchLength(a, b, i + 1, j + 1, ahi, bhi)
    ELSE 0

\* find_longest_match: the longest block; of those the one starting earliest
\* in a, and of those the one starting earliest in b
find_longest_match(a, b, alo, ahi, blo, bhi) ==
    LET starts == (alo..(ahi - 1)) \X (blo..(bhi - 1))
        size(p) == MatchLength(a, b, p[1], p[2], ahi, bhi)
        longest == {p \in starts : \A q \in starts : size(q) <= size(p)}
        best == CHOOSE p \in longest :
                    \A q \in longest : p[1] < q[1] \/ (p[1] = q[1] /\ p[2] <= q[2])
    IN  IF starts = {} \/ size(best) = 0 THEN <<alo, blo, 0>>
        ELSE <<best[1], best[2], size(best)>>

\* get_matching_blocks: the sum of the sizes of the blocks found by
\* splitting around the longest match
RECURSIVE matching_size(_, _, _, _, _, _)
matching_size(a, b, alo, ahi, blo, bhi) ==
    LET m == find_longest_match(a, b, alo, ahi, blo, bhi)
        i == m[1]
        j == m[2]
        k == m[3]
    IN  IF k = 0 THEN 0
        ELSE k + (IF alo < i /\ blo < j
                  THEN matching_size(a, b, alo, i, blo, j) ELSE 0)
               + (IF i + k < ahi /\ j + k < bhi
                  THEN matching_size(a, b, i + k, ahi, j + k, bhi) ELSE 0)

\* ratio(): 2.0 * matches / (len(a) + len(b)), 1.0 for two empty strings
ratio(a, b) ==
    LET length == Len(a) + Len(b)
    IN  IF length > 0
        THEN Norm(<<2 * matching_size(a, b, 1, Len(a) + 1, 1, Len(b) + 1), length>>)
        ELSE <<1, 1>>

ContentPrefix == 200

\* a threshold of 0.5
loose_threshold == <<1, 2>>

\* self.similarity_threshold = 0.7
similarity_threshold == <<7, 10>>

\* the scores list of _calculate_file_similarity with the size signal always
\* appended
scores_size_always(file1, file2) ==
    <<  <<"name", ratio(lower(file1.filename), lower(file2.filename)), <<4, 10>> >>,
        <<"size", IF Max(file1.size, file2.size) > 0
                  THEN Norm(<<Min(file1.size, file2.size), Max(file1.size, file2.size)>>)
                  ELSE <<0, 1>>, <<2, 10>> >>,
        <<"extension", IF file1.extension = file2.extension THEN <<1, 1>> ELSE <<0, 1>>,
          <<1, 10>> >> >>
    \o (IF file1.content_text # <<>> /\ file2.content_text # <<>>
        THEN << <<"content",
                  ratio(SubSeq(file1.content_text, 1,
                               Min(ContentPrefix, Len(file1.content_text))),
                        SubSeq(file2.content_text, 1,
                               Min(ContentPrefix, Len(file2.content_text)))),
                  <<3, 10>> >> >>
        ELSE <<>>)

\* the scores list of _calculate_file_similarity: <<signal, score, weight>>
scores(file1, file2) ==
    <<  <<"name", ratio(lower(file1.filename), lower(file2.filename)), <<4, 10>> >> >>
    \o (IF file1.size > 0 /\ file2.size > 0
        THEN << <<"size",
                  Norm(<<Min(file1.size, file2.size), Max(file1.size, file2.size)>>),
                  <<2, 10>> >> >>
        ELSE <<>>)
    \o << <<"extension", IF file1.extension = file2.extension THEN <<1, 1>> ELSE <<0, 1>>,
            <<1, 10>> >> >>
    \o (IF file1.content_text # <<>> /\ file2.content_text # <<>>
        THEN << <<"content",
                  ratio(SubSeq(file1.content_text, 1,
                               Min(ContentPrefix, Len(file1.content_text))),
                        SubSeq(file2.content_text, 1,
                               Min(ContentPrefix, Len(file2.content_text)))),
                  <<3, 10>> >> >>
        ELSE <<>>)

RECURSIVE SumWeights(_)
SumWeights(sc) ==
    IF sc = <<>> THEN <<0, 1>> ELSE FAdd(Head(sc)[3], SumWeights(Tail(sc)))

RECURSIVE SumWeighted(_)
SumWeighted(sc) ==
    IF sc = <<>> THEN <<0, 1>>
    ELSE FAdd(FMul(Head(sc)[2], Head(sc)[3]), SumWeighted(Tail(sc)))

_calculate_file_similarity(file1, file2) ==
    LET sc == scores(file1, file2)
        total_weight == SumWeights(sc)
    IN  IF FLess(<<0, 1>>, total_weight)
        THEN FDiv(SumWeighted(sc), total_weight)
        ELSE <<0, 1>>

\* _verify_duplicates keeping only the first size that occurs more than once
verify_first_size_only(file_list) ==
    IF Len(file_list) <= 1 THEN file_list
    ELSE LET sizes == FirstOccurrences([i \in 1..Len(file_list) |-> file_list[i].size])
             group(sz) == SelectSeq(file_list, LAMBDA f : f.size = sz)
             multi == SelectSeq(sizes, LAMBDA sz : Len(group(sz)) > 1)
         IN  IF multi = <<>> THEN <<>> ELSE group(multi[1])

\* _verify_duplicates: the files of every size that occurs more than once,
\* size by size, put back into one list
_verify_duplicates(file_list) ==
    IF Len(file_list) <= 1 THEN file_list
    ELSE LET sizes == FirstOccurrences([i \in 1..Len(file_list) |-> file_list[i].size])
             group(sz) == SelectSeq(file_list, LAMBDA f : f.size = sz)
             multi == SelectSeq(sizes, LAMBDA sz : Len(group(sz)) > 1)
         IN  Concat([k \in 1..Len(multi) |-> group(multi[k])])

NoHash == "None"

\* problematic_patterns, for the names of the model: of the version
\* indicators r'_v\d+' and of the generic names r'^file\d*' can match
has_version_indicator(filename_lower) ==
    \E i \in 1..(Len(filename_lower) - 2) :
        /\ filename_lower[i] = "_"
        /\ filename_lower[i + 1] = "v"
        /\ filename_lower[i + 2] \in {"0", "1", "2", "3", "4", "5", "6", "7", "8", "9"}

is_generic_name(filename_lower) ==
    /\ Len(filename_lower) >= 4
    /\ SubSeq(filename_lower, 1, 4) = <<"f", "i", "l", "e">>

\* _analyze_filename; the names of the model are ASCII
_analyze_filename(filename) ==
    LET filename_lower == lower(filename)
        encoding_safe == TRUE
        score == 100
                 - (IF has_version_indicator(filename_lower) THEN 20 ELSE 0)
                 - (IF is_generic_name(filename_lower) THEN 30 ELSE 0)
                 - (IF ~encoding_safe THEN 10 ELSE 0)
                 - (IF Len(filename) < 3 THEN 25 ELSE 0)
    IN  [has_version_indicator |-> has_version_indicator(filename_lower),
         is_generic_name |-> is_generic_name(filename_lower),
         encoding_safe |-> encoding_safe,
         naming_score |-> Max(0, score)]

\* _enhance_file_metadata: the naming analysis is added to the record
_enhance_file_metadata(file_info) ==
    file_info @@ [naming_analysis |-> _analyze_filename(file_info.filename)]

\* x.get('modified', 0)
get_modified(file_info) ==
    IF "modified" \in DOMAIN file_info THEN file_info.modified ELSE 0

\* file_info.get('naming_analysis', {}).get('naming_score', 0)
get_naming_score(file_info) ==
    IF "naming_analysis" \in DOMAIN file_info
    THEN file_info.naming_analysis.naming_score ELSE 0

\* _recommend_duplicate_action: the f-string is kept as <<prefix, filename>>.
\* sorted(..., reverse=True) is stable, so newest is the first record, in
\* list order, with the greatest modification time.
_recommend_duplicate_action(duplicates) ==
    IF Len(duplicates) <= 1 THEN <<"no_action">>
    ELSE LET latest == SetMax({get_modified(duplicates[k]) : k \in 1..Len(duplicates)})
             newest == duplicates[FirstIndex({k \in 1..Len(duplicates) :
                                      get_modified(duplicates[k]) = latest})]
             well_named == {k \in 1..Len(duplicates) :
                               get_naming_score(duplicates[k]) > 70}
         IN  IF well_named # {}
             THEN <<"keep_best_named: ", duplicates[FirstIndex(well_named)].filename>>
             ELSE <<"keep_newest: ", newest.filename>>

\* _find_exact_duplicates
_find_exact_duplicates(file_list) ==
    LET hashed == SelectSeq(file_list, LAMBDA f : f.similarity_hash # NoHash)
        hashes == FirstOccurrences([i \in 1..Len(hashed) |-> hashed[i].similarity_hash])
        bucket(h) == SelectSeq(hashed, LAMBDA f : f.similarity_hash = h)
        found == SelectSeq(hashes,
                    LAMBDA h : Len(bucket(h)) > 1 /\ Len(_verify_duplicates(bucket(h))) > 1)
    IN  [k \in 1..Len(found) |->
            [hash_signature |-> found[k],
             files |-> _verify_duplicates(bucket(found[k])),
             duplicate_type |-> "exact",
             confidence |-> <<1, 1>>,
             recommended_action |->
                 _recommend_duplicate_action(_verify_duplicates(bucket(found[k])))]]

\* the sum of the similarities of the index pairs ps of a group
RECURSIVE SumSimilarity(_, _)
SumSimilarity(group, ps) ==
    IF ps = {} THEN <<0, 1>>
    ELSE LET p == CHOOSE q \in ps : TRUE
         IN  FAdd(_calculate_file_similarity(group[p[1]], group[p[2]]),
                  SumSimilarity(group, ps \ {p}))

\* _calculate_group_confidence: the mean of the pairwise similarities
_calculate_group_confidence(group) ==
    IF Len(group) < 2 THEN <<0, 1>>
    ELSE LET pairs == {p \in (1..Len(group)) \X (1..Len(group)) : p[1] < p[2]}
         IN  FDiv(SumSimilarity(group, pairs), <<Cardinality(pairs), 1>>)

\* the loop of _find_similar_within_group from index i on (1-based)
RECURSIVE SimilarLoop(_, _, _, _)
SimilarLoop(bucket, i, processed, similar_groups) ==
    IF i > Len(bucket) THEN similar_groups
    ELSE IF i \in processed THEN SimilarLoop(bucket, i + 1, processed, similar_groups)
    ELSE LET js == {j \in (i + 1)..Len(bucket) :
                      /\ j \notin processed
                      /\ FLess(similarity_threshold,
                               _calculate_file_similarity(bucket[i], bucket[j]))}
             asc == Ascending(js)
             similar_files == <<bucket[i]>> \o [k \in 1..Len(asc) |-> bucket[asc[k]]]
         IN  IF Len(similar_files) > 1
             THEN SimilarLoop(bucket, i + 1, processed \cup js \cup {i},
                      Append(similar_groups,
                             [hash_signature |-> <<"similar", i - 1>>,
                              files |-> similar_files,
                              duplicate_type |-> "similar",
                              confidence |-> _calculate_group_confidence(similar_files),
                              recommended_action |-> "review_manually"]))
             ELSE SimilarLoop(bucket, i + 1, processed, similar_groups)

\* a loop without the processed set: every record seeds a group with the later
\* records similar to it
every_record_seeds(bucket) ==
    LET later(i) == {j \in (i + 1)..Len(bucket) :
                        FLess(similarity_threshold,
                              _calculate_file_similarity(bucket[i], bucket[j]))}
        seeds == Ascending({i \in 1..Len(bucket) : later(i) # {}})
    IN  [k \in 1..Len(seeds) |->
            LET asc == Ascending(later(seeds[k]))
                similar_files == <<bucket[seeds[k]]>> \o [l \in 1..Len(asc) |-> bucket[asc[l]]]
            IN  [hash_signature |-> <<"similar", seeds[k] - 1>>,
                 files |-> similar_files,
                 duplicate_type |-> "similar",
                 confidence |-> _calculate_group_confidence(similar_files),
                 recommended_action |-> "review_manually"]]

\* _find_similar_within_group
_find_similar_within_group(bucket) == SimilarLoop(bucket, 1, {}, <<>>)

\* _find_similar_files
_find_similar_files(file_list) ==
    LET exts == FirstOccurrences([i \in 1..Len(file_list) |-> lower(file_list[i].extension)])
        bucket(ext) == SelectSeq(file_list, LAMBDA f : lower(f.extension) = ext)
        multi == SelectSeq(exts, LAMBDA ext : Len(bucket(ext)) > 1)
    IN  Concat([k \in 1..Len(multi) |-> _find_similar_within_group(bucket(multi[k]))])

\* detect_comprehensive_issues: the exact and the similar pass.  A behaviour
\* is one use of the cleaner: either this call or similarity calls.
detect_comprehensive_issues ==
    /\ issues = NotRun
    /\ similarity = NotRun
    /\ issues' = [op |-> "issues",
                  exact_duplicates |-> _find_exact_duplicates(files),
                  similar_files |-> _find_similar_files(files)]
    /\ UNCHANGED <<files, similarity>>
    /\ UNCHANGED <<cache_vars, run_vars, classifier_vars, session_vars, worker_vars, smart_vars>>

\* a call _calculate_file_similarity(files[i], files[j])
calculate_file_similarity(i, j) ==
    /\ issues = NotRun
    /\ i \in 1..Len(files)
    /\ j \in 1..Len(files)
    /\ similarity' = [op |-> "similarity", file1 |-> files[i], file2 |-> files[j],
                      score |-> _calculate_file_similarity(files[i], files[j])]
    /\ UNCHANGED <<files, issues>>
    /\ UNCHANGED <<cache_vars, run_vars, classifier_vars, session_vars, worker_vars, smart_vars>>

\* Record lists handed to the cleaner.  Each record gets its position as path.
Hashes == {"h1", "h2", NoHash}

ExactRecords ==
    [filename : {<<"a">>}, size : {10, 20}, extension : {<<".", "x">>},
     content_text : {<<>>}, similarity_hash : Hashes]

SimilarRecords ==
    [filename : {<<"a", "b", "a">>, <<"a", "b", "c">>}, size : {0, 1, 2},
     extension : {<<".", "x">>},
     content_text : {<<>>}, similarity_hash : {"h1"}]
    \cup
    [filename : {<<"a", "b", "a">>}, size : {1, 2},
     extension : {<<".", "y">>},
     content_text : {<<>>}, similarity_hash : {"h1"}]

PairRecords ==
    [filename : {<<"a", "b", "a">>, <<"b", "c", "a">>, <<"A", "B", "A">>}, size : {0, 1, 2},
     extension : {<<".", "x">>, <<".", "y">>},
     content_text : {<<>>, <<"a", "b">>, <<"b", "a">>}, similarity_hash : {"h1"}]

\* records as clean_results hands them on: copies of one content, with a
\* modification time and the naming analysis
NamedFilenames ==
    {<<"a", "b", "c">>, <<"a", "b", "_", "v", "2">>,
     <<"f", "i", "l", "e">>, <<"f", "i", "l", "e", "_", "v", "2">>}

NamedRecords ==
    {_enhance_file_metadata(r) :
        r \in [filename : NamedFilenames, size : {10}, extension : {<<".", "x">>},
               content_text : {<<>>}, similarity_hash : {"h1"}, modified : {1, 2}]}

\* records of one name and size under two extensions
BucketRecords ==
    [filename : {<<"a", "b", "a">>}, size : {1},
     extension : {<<".", "x">>, <<".", "y">>},
     content_text : {<<>>}, similarity_hash : {"h1"}]

WithPaths(records) == [i \in 1..Len(records) |-> records[i] @@ [path |-> i]]

InitGrouper ==
    /\ WorkersIdle
    /\ SmartIdle
    /\ CacheIdle
    /\ RunIdle
    /\ ClassifierIdle
    /\ SessionsIdle
    /\ \E records \in
            (UNION {[1..n -> ExactRecords] : n \in 0..MaxExactFiles})
            \cup (UNION {[1..n -> SimilarRecords] : n \in 0..MaxSimilarFiles})
            \cup (UNION {[1..n -> NamedRecords] : n \in 0..MaxNamedFiles})
            \cup (UNION {[1..n -> BucketRecords] : n \in 0..MaxBucketFiles})
            \cup [1..2 -> PairRecords] :
          files = WithPaths(records)
    /\ issues = NotRun
    /\ similarity = NotRun

NextGrouper ==
    \/ detect_comprehensive_issues
    \/ \E i, j \in 1..2 : calculate_file_similarity(i, j)

SpecGrouper == InitGrouper /\ [][NextGrouper]_vars

\* ------------------------------------------------------------------------
\* Claims about the grouper and the similarity score
\* ------------------------------------------------------------------------
Members(group) == {group.files[k].path : k \in 1..Len(group.files)}

HasFingerprint(i) == files[i].similarity_hash # NoHash

ExactGroupsOf(i) ==
    {g \in 1..Len(issues.exact_duplicates) :
        files[i].path \in Members(issues.exact_duplicates[g])}

\* C6: any two records with the same fingerprint and the same size are
\* members of the same exact group, and no record is a member of more than
\* one exact group; n >= 2 records with identical content give exactly one
\* exact group holding all n.
C6_SameHashSameSizeGrouped ==
    issues.op = "issues" =>
        /\ \A i, j \in 1..Len(files) :
              (/\ i # j
               /\ HasFingerprint(i)
               /\ files[i].similarity_hash = files[j].similarity_hash
               /\ files[i].size = files[j].size)
              => \E g \in ExactGroupsOf(i) : g \in ExactGroupsOf(j)
        /\ \A i \in 1..Len(files) :
              /\ Cardinality(ExactGroupsOf(i)) <= 1
              /\ \A g \in ExactGroupsOf(i) :
                    Cardinality({k \in 1..Len(issues.exact_duplicates[g].files) :
                        issues.exact_duplicates[g].files[k].path = files[i].path}) = 1
        /\ (/\ Len(files) >= 2
            /\ HasFingerprint(1)
            /\ \A i \in 1..Len(files) :
                  /\ files[i].similarity_hash = files[1].similarity_hash
                  /\ files[i].size = files[1].size)
           => /\ Len(issues.exact_duplicates) = 1
              /\ Members(issues.exact_duplicates[1]) = 1..Len(files)

\* three identical records and one of another size under the other fingerprint:
\* one exact group with the three
C6_Witness ==
    /\ issues.op = "issues"
    /\ Len(files) = 4
    /\ Len(issues.exact_duplicates) = 1
    /\ Cardinality(Members(issues.exact_duplicates[1])) = 3
    /\ \E i \in 1..4 : HasFingerprint(i) /\ ExactGroupsOf(i) = {}

\* C7: every exact group has at least 2 members, confidence 1.0, and members
\* that all share one fingerprint and one size; a fingerprint bucket holding
\* several sizes is split, so records of different sizes are never in one
\* exact group.
C7_ExactGroupsHomogeneous ==
    issues.op = "issues" =>
        \A g \in 1..Len(issues.exact_duplicates) :
            LET group == issues.exact_duplicates[g]
            IN  /\ Len(group.files) >= 2
                /\ group.confidence = <<1, 1>>
                /\ \A k, l \in 1..Len(group.files) :
                      /\ group.files[k].similarity_hash = group.files[l].similarity_hash
                      /\ group.files[k].size = group.files[l].size

\* C8 (as stated): in every similar group all members share the extension and
\* every pair of members has similarity above 0.7.
C8_AllPairsSimilar ==
    issues.op = "issues" =>
        \A g \in 1..Len(issues.similar_files) :
            LET group == issues.similar_files[g].files
            IN  \A k, l \in 1..Len(group) :
                  /\ group[k].extension = group[l].extension
                  /\ k # l => FLess(<<7, 10>>, _calculate_file_similarity(group[k], group[l]))

\* C8 (amended): in every similar group all members share the extension and
\* the similarity of the group's first member to every other member is above
\* 0.7.
C8_SimilarToFirstMember ==
    issues.op = "issues" =>
        \A g \in 1..Len(issues.similar_files) :
            LET group == issues.similar_files[g].files
            IN  /\ Len(group) >= 2
                /\ \A k \in 2..Len(group) :
                      /\ group[k].extension = group[1].extension
                      /\ FLess(<<7, 10>>, _calculate_file_similarity(group[1], group[k]))

\* a similar group of three whose second and third member are not similar to
\* each other
C8_Witness ==
    /\ issues.op = "issues"
    /\ \E g \in 1..Len(issues.similar_files) :
          LET group == issues.similar_files[g].files
          IN  /\ Len(group) = 3
              /\ ~FLess(<<7, 10>>, _calculate_file_similarity(group[2], group[3]))

\* C9: similarity(a, b) equals similarity(b, a), and similarity(a, a) is 1.0,
\* also for records of size 0 or with an empty content sample.
C9_SymmetricAndReflexive ==
    similarity.op = "similarity" =>
        /\ FEq(similarity.score,
               _calculate_file_similarity(similarity.file2, similarity.file1))
        /\ (similarity.file1 = similarity.file2) => FEq(similarity.score, <<1, 1>>)

\* the signals of a pair, computed apart from the scores list
NameScore(a, b) == ratio(lower(a.filename), lower(b.filename))
SizeApplies(a, b) == a.size > 0 /\ b.size > 0
ContentApplies(a, b) == a.content_text # <<>> /\ b.content_text # <<>>
ContentScore(a, b) == ratio(a.content_text, b.content_text)

\* C10: the score lies in [0,1] and equals the sum of score x weight over the
\* applicable signals divided by the sum of the applicable weights: name 0.4
\* and extension 0.1 always, size 0.2 only when both sizes are > 0, content
\* 0.3 only when both content samples are non-empty.
C10_WeightedMean ==
    similarity.op = "similarity" =>
        LET a == similarity.file1
            b == similarity.file2
            n == NameScore(a, b)
            c == IF ContentApplies(a, b) THEN ContentScore(a, b) ELSE <<0, 1>>
            sizeNum == IF SizeApplies(a, b) THEN Min(a.size, b.size) ELSE 0
            sizeDen == IF SizeApplies(a, b) THEN Max(a.size, b.size) ELSE 1
            ext == IF a.extension = b.extension THEN 1 ELSE 0
            weights == 4 + 1 + (IF SizeApplies(a, b) THEN 2 ELSE 0)
                             + (IF ContentApplies(a, b) THEN 3 ELSE 0)
            den == n[2] * sizeDen * c[2]
            num == 4 * n[1] * sizeDen * c[2] + 1 * ext * den
                   + 2 * sizeNum * n[2] * c[2]
                   + (IF ContentApplies(a, b) THEN 3 * c[1] * n[2] * sizeDen ELSE 0)
        IN  /\ similarity.score[2] > 0
            /\ 0 <= similarity.score[1]
            /\ similarity.score[1] <= similarity.score[2]
            /\ similarity.score[1] * (weights * den) = similarity.score[2] * num

\* a pair for which the size signal is dropped and the content signal counts,
\* with a score strictly between 0 and 1
C10_Witness ==
    /\ similarity.op = "similarity"
    /\ ~SizeApplies(similarity.file1, similarity.file2)
    /\ ContentApplies(similarity.file1, similarity.file2)
    /\ 0 < similarity.score[1]
    /\ similarity.score[1] < similarity.score[2]

\* ------------------------------------------------------------------------
\* classify_file (classifier.py)
\* ------------------------------------------------------------------------
\* A file name is kept as what classify_file reads off it: the keywords that
\* occur in the lowercased base name, and the lowercased suffix.
MaxNameWords == 2

categories ==
    << [name |-> "school",
        keywords |-> {"homework", "assignment", "essay", "study", "notes", "midterm", "final", "quiz"},
        extensions |-> {".pdf", ".docx", ".txt"}],
       [name |-> "work",
        keywords |-> {"meeting", "presentation", "report", "proposal", "contract", "budget"},
        extensions |-> {".pptx", ".xlsx", ".pdf", ".docx"}],
       [name |-> "financial",
        keywords |-> {"invoice", "receipt", "bill", "tax", "statement", "payment", "bank"},
        extensions |-> {".pdf", ".jpg", ".png"}],
       [name |-> "personal",
        keywords |-> {"vacation", "family", "birthday", "wedding", "photo", "memory"},
        extensions |-> {".jpg", ".png", ".mp4", ".mov"}],
       [name |-> "media",
        keywords |-> {"photo", "video", "music", "image", "screenshot"},
        extensions |-> {".jpg", ".png", ".mp4", ".mp3", ".mov", ".avi"}],
       [name |-> "code",
        keywords |-> {"script", "app", "main", "index", "component"},
        extensions |-> {".py", ".js", ".html", ".css", ".java", ".cpp"}] >>

\* a score in which a keyword counts as much as the extension
unweighted_score(criteria, file) ==
    Cardinality(criteria.keywords \cap file.words)
        + (IF file.extension \in criteria.extensions THEN 1 ELSE 0)

\* the score of one category: 2 for each keyword found, 1 for the extension
category_score(criteria, file) ==
    2 * Cardinality(criteria.keywords \cap file.words)
        + (IF file.extension \in criteria.extensions THEN 1 ELSE 0)

\* scores[best_category]: 'uncategorized' is not a key of scores
scores_lookup(score) ==
    IF score = 0 THEN [raised |-> "KeyError", score |-> 0]
                 ELSE [raised |-> None, score |-> score]

\* classify_file: max(scores, key=scores.get) is the first category, in the
\* order of the dict, that has the greatest score
classify_file(file) ==
    LET category_scores == [i \in 1..Len(categories) |-> category_score(categories[i], file)]
        top == SetMax(Range(category_scores))
        best == IF top > 0 THEN FirstIndex({i \in 1..Len(category_scores) : category_scores[i] = top})
                           ELSE 0
        best_category == IF best = 0 THEN "uncategorized" ELSE categories[best].name
        found == scores_lookup(IF best = 0 THEN 0 ELSE category_scores[best])
    IN  [raised |-> found.raised,
         category |-> IF found.raised = None THEN best_category ELSE None,
         confidence |-> IF found.score >= 3 THEN <<1, 1>> ELSE <<found.score, 3>>,
         scores |-> category_scores]

ClassifierKeywords == {"homework", "essay", "photo", "report", "main"}
ClassifierExtensions == {".pdf", ".jpg", ".py", ".bin", ""}

ClassifierFiles ==
    [words : {w \in SUBSET ClassifierKeywords : Cardinality(w) <= MaxNameWords},
     extension : ClassifierExtensions]

call_classify_file ==
    /\ classification = NotRun
    /\ classification' = [op |-> "classify_file"] @@ classify_file(classified_file)
    /\ UNCHANGED classified_file
    /\ UNCHANGED <<cache_vars, run_vars, grouper_vars, session_vars, worker_vars, smart_vars>>

InitClassifier ==
    /\ WorkersIdle
    /\ SmartIdle
    /\ CacheIdle
    /\ RunIdle
    /\ GrouperIdle
    /\ SessionsIdle
    /\ classified_file \in ClassifierFiles
    /\ classification = NotRun

NextClassifier == call_classify_file

SpecClassifier == InitClassifier /\ [][NextClassifier]_vars

\* C11: classify_file returns, for every file name, a result whose
\* confidence lies in [0, 1], and the category is 'uncategorized' exactly
\* when every category's score is 0.
C11_ConfidenceAndUncategorized ==
    classification # NotRun =>
        /\ classification.raised = None
        /\ 0 <= classification.confidence[1]
        /\ classification.confidence[1] <= classification.confidence[2]
        /\ (classification.category = "uncategorized"
              <=> \A i \in 1..Len(categories) : classification.scores[i] = 0)

\* ------------------------------------------------------------------------
\* EnhancedAnalysisDatabase.save_analysis (database_manager.py)
\* ------------------------------------------------------------------------
MaxSessions == 3
MaxReading == 2

Directories == {"dir1", "dir2"}
FilesProcessed == {0, 4}

\* f"session_{datetime.now().timestamp()}": distinct readings of the clock
\* print differently, equal readings print the same
session_id_at(reading) == <<"session_", str_int(reading)>>

\* a table without the UNIQUE constraint
NoUniqueConstraint(table, session_id) == FALSE

\* session_id TEXT UNIQUE NOT NULL: the INSERT fails when the id is present
UniqueViolation(table, session_id) ==
    \E i \in 1..Len(table) : table[i].session_id = session_id

\* save_analysis; cache_hits is random.randint(0, max(1, files_processed // 2))
save_analysis(directory_path, files_processed) ==
    /\ Len(analysis_sessions) < MaxSessions
    /\ LET session_id == session_id_at(clock)
       IN  IF UniqueViolation(analysis_sessions, session_id)
           THEN /\ saved' = [op |-> "save_analysis", val |-> <<"IntegrityError">>]
                /\ UNCHANGED analysis_sessions
           ELSE \E cache_hits \in 0..Max(1, files_processed \div 2) :
                /\ analysis_sessions' = Append(analysis_sessions,
                       [id |-> Len(analysis_sessions) + 1,
                        session_id |-> session_id,
                        directory_path |-> directory_path,
                        files_processed |-> files_processed,
                        performance_metrics |->
                            [cache_hits |-> cache_hits,
                             cache_misses |-> files_processed - cache_hits]])
                /\ saved' = [op |-> "save_analysis", val |-> session_id]
    /\ UNCHANGED clock
    /\ UNCHANGED <<cache_vars, run_vars, grouper_vars, classifier_vars, worker_vars, smart_vars>>

\* get_history: the rows of analysis_sessions are read
get_history ==
    /\ saved' = [op |-> "get_history", val |-> Range(analysis_sessions)]
    /\ UNCHANGED <<analysis_sessions, clock>>
    /\ UNCHANGED <<cache_vars, run_vars, grouper_vars, classifier_vars, worker_vars, smart_vars>>

\* the wall clock read by datetime.now() moves, forward or back
clock_change(reading) ==
    /\ reading # clock
    /\ clock' = reading
    /\ saved' = NotRun
    /\ UNCHANGED analysis_sessions
    /\ UNCHANGED <<cache_vars, run_vars, grouper_vars, classifier_vars, worker_vars, smart_vars>>

InitSessions ==
    /\ WorkersIdle
    /\ SmartIdle
    /\ CacheIdle
    /\ RunIdle
    /\ GrouperIdle
    /\ ClassifierIdle
    /\ analysis_sessions = <<>>
    /\ clock = 0
    /\ saved = NotRun

NextSessions ==
    \/ \E d \in Directories, n \in FilesProcessed : save_analysis(d, n)
    \/ get_history
    \/ \E t \in 0..MaxReading : clock_change(t)

SpecSessions == InitSessions /\ [][NextSessions]_vars

\* C18: every successful save_analysis records one session whose session_id
\* differs from that of every session recorded before, also when two calls
\* read the same clock value, and recorded sessions are never changed.
C18_SessionIdsDistinct ==
    /\ [][/\ IsPrefix(analysis_sessions, analysis_sessions')
          /\ (saved' # saved /\ saved'.op = "save_analysis"
                             /\ saved'.val # <<"IntegrityError">>)
                => /\ Len(analysis_sessions') = Len(analysis_sessions) + 1
                   /\ analysis_sessions'[Len(analysis_sessions')].session_id = saved'.val
                   /\ \A i \in 1..Len(analysis_sessions) :
                         analysis_sessions[i].session_id # saved'.val]_vars
    /\ [](\A i, j \in 1..Len(analysis_sessions) :
              i # j => analysis_sessions[i].session_id # analysis_sessions[j].session_id)

\* a second call made at a clock reading already used was refused, and two
\* sessions are recorded
C18_Witness ==
    /\ saved = [op |-> "save_analysis", val |-> <<"IntegrityError">>]
    /\ Len(analysis_sessions) = 2
    /\ UniqueViolation(analysis_sessions, session_id_at(clock))

\* ------------------------------------------------------------------------
\* The batch worker of parallel_file_analyzer.py, on the same directory
\* ------------------------------------------------------------------------
\* calculate_file_hash: the md5 of the bytes, "error" when open() raises
calculate_file_hash(filepath) ==
    IF disk[filepath].readable THEN md5(<<disk[filepath].data>>) ELSE <<"error">>

\* analyze_file_batch: a file whose os.stat raises is skipped (continue)
analyze_file_batch(paths) ==
    LET present == SelectSeq(paths, LAMBDA f : disk[f].exists)
    IN  [i \in 1..Len(present) |->
            [filepath |-> present[i],
             size |-> disk[present[i]].size,
             hash_md5 |-> calculate_file_hash(present[i])]]

\* ------------------------------------------------------------------------
\* Claims about chunking, failures and progress (file_analyzer.py)
\* ------------------------------------------------------------------------
DiscoveredPaths == {file_paths[i][1] : i \in 1..Len(file_paths)}

Occurrences(seq, x) == Cardinality({k \in 1..Len(seq) : seq[k] = x})

RecordsOf(f) == {k \in 1..Len(all_results) : all_results[k].path = f}

\* C12: the chunks partition the discovered files, more than chunk_size
\* files give at least two chunks, and the aggregate of a finished run holds
\* exactly one record per discovered file.
C12_ChunksPartitionAndAggregate ==
    /\ pc = "reset" =>
          /\ Len(Concat(file_chunks)) = Len(file_paths)
          /\ \A f \in DiscoveredPaths : Occurrences(Concat(file_chunks), f) = 1
          /\ (Len(file_paths) > chunk_size => Len(file_chunks) >= 2)
    /\ pc = "done" =>
          /\ Len(all_results) = Len(file_paths)
          /\ \A f \in DiscoveredPaths : Cardinality(RecordsOf(f)) = 1

\* a run over three files finished after they were cut into several chunks
C12_Witness ==
    /\ pc = "done"
    /\ Len(file_paths) = 3
    /\ Len(file_paths) > chunk_size
    /\ Len(all_results) = 3

\* C13: when the directory does not exist the call is rejected by a
\* validation step: no discovery, chunking or processing step is taken, no
\* record is produced and no session is recorded.
C13_MissingDirectoryRejected ==
    ~directory =>
        /\ pc \in {"idle", "rejected"}
        /\ all_results = <<>>
        /\ analysis_sessions = <<>>

\* C14: in a finished run every discovered file has exactly one record, the
\* record of a file whose analysis failed (unreadable or vanished) has
\* category 'Errors', the other files are analysed normally, and no analyzer
\* drops a failing file from its results.
C14_FailuresBecomeErrorRecords ==
    /\ pc = "done" =>
          \A f \in DiscoveredPaths :
              /\ Cardinality(RecordsOf(f)) = 1
              /\ \A k \in RecordsOf(f) :
                    IF f \in {x.path : x \in failed}
                    THEN all_results[k].category = "Errors"
                    ELSE all_results[k].status = "analyzed"
    /\ \A f \in DiscoveredPaths : Len(analyze_file_batch(<<f>>)) = 1

\* C15: for a file that cannot be opened the fingerprint operation returns
\* no fingerprint, and the file's record has category 'Errors'.
C15_UnreadableFingerprintFails ==
    pc = "done" =>
        \A x \in failed :
            x.reason = "unreadable" =>
                \A k \in RecordsOf(x.path) :
                    /\ "similarity_hash" \notin DOMAIN all_results[k]
                    /\ all_results[k].category = "Errors"

\* C16: two files with identical bytes and size get the same fingerprint,
\* whatever their paths and whichever path of the fingerprint operation is
\* taken.
C16_FingerprintOfContentAndSize ==
    (pc = "done" /\ changes = 0) =>
        \A j, k \in 1..Len(all_results) :
            LET a == all_results[j]
                b == all_results[k]
            IN  (/\ disk[a.path].data = disk[b.path].data
                 /\ disk[a.path].size = disk[b.path].size)
                    => a.similarity_hash = b.similarity_hash

\* the counter moves by one for each result collected
CountsEachResult ==
    Len(results') = Len(results) + 1 => progress'.processed = progress.processed + 1

C19_NoEmptyChunk ==
    /\ \A i \in 1..Len(file_chunks) : file_chunks[i] # <<>>
    /\ pc # "crashed"

SizeIn(file_data, f) ==
    file_data[CHOOSE i \in 1..Len(file_data) : file_data[i][1] = f][2]

\* the cumulative size of the first k files of a chunk
RECURSIVE CumulativeSize(_, _)
CumulativeSize(chunk, k) ==
    IF k = 0 THEN 0 ELSE SizeIn(file_paths, chunk[k]) + CumulativeSize(chunk, k - 1)

\* C20: files are packed largest first, no chunk has more than chunk_size
\* files, and no file is added to a chunk whose cumulative size has reached
\* size_threshold = total / (n // chunk_size + 1).
C20_PackedBelowThreshold ==
    pc = "reset" =>
        /\ \A i, j \in 1..Len(file_paths) :
              i < j => file_paths[i][2] >= file_paths[j][2]
        /\ Concat(file_chunks) = [i \in 1..Len(file_paths) |-> file_paths[i][1]]
        /\ \A c \in 1..Len(file_chunks) : Len(file_chunks[c]) <= chunk_size
        /\ LET total == SumSizes(file_paths)
               parts == (Len(file_paths) \div chunk_size) + 1
           IN  \A c \in 1..Len(file_chunks) :
                   \A k \in 2..Len(file_chunks[c]) :
                       CumulativeSize(file_chunks[c], k - 1) * parts < total

\* ------------------------------------------------------------------------
\* Further claims about the analysis run
\* ------------------------------------------------------------------------
\* the least integer not below n / d
Ceiling(n, d) == (n + d - 1) \div d

\* C21: for more than chunk_size discovered files the size threshold of the
\* packing is the total size divided by the ceiling of n / chunk_size, also
\* when n is an exact multiple of chunk_size.
C21_ThresholdUsesCeiling ==
    (pc = "reset" /\ Len(file_paths) > chunk_size) =>
        FEq(size_threshold(file_paths),
            <<SumSizes(file_paths), Ceiling(Len(file_paths), chunk_size)>>)

\* ------------------------------------------------------------------------
\* Further claims about classify_file
\* ------------------------------------------------------------------------
\* the greatest score of the result
TopScore == SetMax({classification.scores[i] : i \in 1..Len(categories)})

\* C22: the score of each category is 2 for every keyword of the category
\* found in the lowercased file name plus 1 when the extension is in the
\* category's list; the category returned has the greatest score, and of
\* several categories with the greatest score it is the one declared first.
C22_ScoresAndFirstDeclaredWins ==
    (classification # NotRun /\ classification.raised = None) =>
        /\ \A i \in 1..Len(categories) :
              classification.scores[i] =
                  2 * Cardinality({k \in categories[i].keywords : k \in classified_file.words})
                  + (IF classified_file.extension \in categories[i].extensions THEN 1 ELSE 0)
        /\ \E i \in 1..Len(categories) :
              /\ classification.category = categories[i].name
              /\ classification.scores[i] = TopScore
              /\ \A j \in 1..(i - 1) : classification.scores[j] < TopScore

\* a name with a keyword found, two categories tied for the greatest score
\* and the later one not returned
C22_Witness ==
    /\ classification # NotRun
    /\ classification.raised = None
    /\ classified_file.words # {}
    /\ \E i, j \in 1..Len(categories) :
          /\ i < j
          /\ classification.scores[i] = TopScore
          /\ classification.scores[j] = TopScore
          /\ classification.category = categories[i].name

\* ------------------------------------------------------------------------
\* Further claims about the grouper
\* ------------------------------------------------------------------------
\* the members of an exact group with the greatest naming score and, of
\* those, the greatest modification time
BestMembers(group) ==
    LET top == SetMax({get_naming_score(group.files[k]) : k \in 1..Len(group.files)})
        named == {k \in 1..Len(group.files) : get_naming_score(group.files[k]) = top}
        latest == SetMax({get_modified(group.files[k]) : k \in named})
    IN  {k \in named : get_modified(group.files[k]) = latest}

\* C23: the recommended action of an exact group names a member of the
\* group: the member with the highest naming score and, of the members tied on
\* the naming score, the most recently modified one.
C23_KeepsBestNamedThenNewest ==
    issues.op = "issues" =>
        \A g \in 1..Len(issues.exact_duplicates) :
            LET group == issues.exact_duplicates[g]
            IN  /\ Len(group.recommended_action) = 2
                /\ \E k \in BestMembers(group) :
                      group.recommended_action[2] = group.files[k].filename

SimilarGroupsOf(i) ==
    {g \in 1..Len(issues.similar_files) :
        files[i].path \in Members(issues.similar_files[g])}

\* records i and j are in one extension bucket and score above the threshold,
\* whichever of the two is the first argument
SimilarInBucket(i, j) ==
    /\ i # j
    /\ lower(files[i].extension) = lower(files[j].extension)
    /\ FLess(similarity_threshold, _calculate_file_similarity(files[i], files[j]))
    /\ FLess(similarity_threshold, _calculate_file_similarity(files[j], files[i]))

\* C24: in one similar pass every record is a member of at most one similar
\* group, and is listed there once: a record assigned to a group, as its seed
\* or as a member, is not placed in another group, whatever the input order.
C24_AtMostOneSimilarGroup ==
    issues.op = "issues" =>
        \A i \in 1..Len(files) :
            /\ Cardinality(SimilarGroupsOf(i)) <= 1
            /\ \A g \in SimilarGroupsOf(i) :
                  Cardinality({k \in 1..Len(issues.similar_files[g].files) :
                      issues.similar_files[g].files[k].path = files[i].path}) = 1

\* a record m that is a member, not the seed, of a group, and an earlier
\* record c of no group that is similar to m: c has not taken m into a group
\* of its own
C24_Witness ==
    /\ issues.op = "issues"
    /\ \E c, m \in 1..Len(files) :
          /\ c < m
          /\ SimilarInBucket(c, m)
          /\ SimilarGroupsOf(c) = {}
          /\ \E g \in SimilarGroupsOf(m) :
                issues.similar_files[g].files[1].path # files[m].path

\* C25: similar groups are single-linkage clusters: no record that is
\* similar (above 0.7) to at least one other record of its extension bucket
\* is left outside every similar group.
C25_SimilarRecordsAreGrouped ==
    issues.op = "issues" =>
        \A i, j \in 1..Len(files) :
            SimilarInBucket(i, j) => SimilarGroupsOf(i) # {}

\* C29: in one result of _find_similar_files every similar group has a
\* hash_signature different from that of every other similar group, also
\* when the groups come from different extension buckets.
C29_SimilarSignaturesDistinct ==
    issues.op = "issues" =>
        \A g, h \in 1..Len(issues.similar_files) :
            g # h => issues.similar_files[g].hash_signature
                        # issues.similar_files[h].hash_signature

\* ------------------------------------------------------------------------
\* Further claims about the analysis run: grouping pass and progress
\* ------------------------------------------------------------------------
\* C26: the grouping pass of a run (_organize_results) starts only when
\* every chunk has been processed and merged into all_results, is made
\* exactly once in a run that completes, and is given the aggregated records
\* of all chunks, one for each discovered file.
C26_GroupingOnceAfterAllChunks ==
    /\ [][organized' # organized =>
            \/ organized' = <<>>
            \/ /\ file_chunks = <<>>
               /\ futures = {}
               /\ finished = {}
               /\ results = <<>>
               /\ organized' = <<all_results>>
               /\ Len(all_results) = Len(file_paths)
               /\ \A f \in DiscoveredPaths : Cardinality(RecordsOf(f)) = 1
               /\ last_analysis'.similarity_groups
                     = _organize_results(all_results).similarity_groups
               /\ last_analysis'.categories = _organize_results(all_results).categories]_vars
    /\ [](Len(organized) <= 1)
    /\ [](pc = "done" <=> Len(organized) = 1)

\* a run over three files in several chunks has completed and its one
\* grouping pass has got the three records
C26_Witness ==
    /\ pc = "done"
    /\ Len(file_paths) = 3
    /\ Len(file_paths) > chunk_size
    /\ Len(organized) = 1
    /\ Len(organized[1]) = 3

\* C28: in every state a poller can see, also while a second run starts on
\* an analyzer that has completed a run, processed <= total and
\* get_progress() lies in [0, 100].
C28_ProgressWithinBounds ==
    /\ progress.processed <= progress.total
    /\ 0 <= get_progress(progress)[1]
    /\ get_progress(progress)[1] <= 100 * get_progress(progress)[2]

\* ------------------------------------------------------------------------
\* The worker count of AdvancedFileAnalyzer (file_analyzer.py)
\* ------------------------------------------------------------------------
\* One analyzer is constructed and then used for analyze_directory and
\* benchmark_performance calls.  Of analyze_directory only the thread pool of
\* _process_chunk is kept; chunks are processed one after the other, so one
\* chunk of 1..MaxChunkFiles files stands for the run.
MaxChunkFiles == 5

CpuCounts == {1, 2, 4, 8, 16}

\* the num_workers argument of the constructor; <<>> is None
NumWorkersArguments == {<<>>, <<0>>, <<1>>, <<4>>, <<16>>}

\* __init__: self.num_workers = num_workers or min(cpu_count(), 8)
init_num_workers(argument) ==
    IF argument = <<>> THEN Min(cpus, 8)
    ELSE IF argument[1] = 0 THEN Min(cpus, 8)
    ELSE argument[1]

\* AdvancedFileAnalyzer(num_workers=argument)
construct(argument) ==
    /\ worker_pc = "new"
    /\ num_workers' = init_num_workers(argument)
    /\ worker_pc' = "ready"
    /\ UNCHANGED <<cpus, original_workers, worker_counts, executor>>
    /\ UNCHANGED <<cache_vars, run_vars, grouper_vars, classifier_vars, session_vars, smart_vars>>

\* _process_chunk: ThreadPoolExecutor(max_workers=min(4, len(file_chunk))) and
\* one submit per file of the chunk
_process_chunk(chunk_files) ==
    /\ worker_pc \in {"ready", "benchmark_run"}
    /\ executor = NotRun
    /\ executor' = [op |-> "pool", max_workers |-> Min(4, chunk_files),
                    pending |-> chunk_files, running |-> 0]
    /\ UNCHANGED <<cpus, num_workers, original_workers, worker_counts, worker_pc>>
    /\ UNCHANGED <<cache_vars, run_vars, grouper_vars, classifier_vars, session_vars, smart_vars>>

\* a thread of the pool takes a submitted file
thread_starts ==
    /\ executor # NotRun
    /\ executor.pending > 0
    /\ executor.running < executor.max_workers
    /\ executor' = [executor EXCEPT !.pending = @ - 1, !.running = @ + 1]
    /\ UNCHANGED <<cpus, num_workers, original_workers, worker_counts, worker_pc>>
    /\ UNCHANGED <<cache_vars, run_vars, grouper_vars, classifier_vars, session_vars, smart_vars>>

\* analyze_single_file_advanced returns in a thread
thread_finishes ==
    /\ executor # NotRun
    /\ executor.running > 0
    /\ executor' = [executor EXCEPT !.running = @ - 1]
    /\ UNCHANGED <<cpus, num_workers, original_workers, worker_counts, worker_pc>>
    /\ UNCHANGED <<cache_vars, run_vars, grouper_vars, classifier_vars, session_vars, smart_vars>>

\* the with block of _process_chunk is left; analyze_directory returns
chunk_done ==
    /\ executor # NotRun
    /\ executor.pending = 0
    /\ executor.running = 0
    /\ executor' = NotRun
    /\ worker_pc' = IF worker_pc = "benchmark_run" THEN "benchmark" ELSE worker_pc
    /\ UNCHANGED <<cpus, num_workers, original_workers, worker_counts>>
    /\ UNCHANGED <<cache_vars, run_vars, grouper_vars, classifier_vars, session_vars, smart_vars>>

\* benchmark_performance with worker_counts None, up to the loop
benchmark_performance ==
    /\ worker_pc = "ready"
    /\ executor = NotRun
    /\ worker_counts' = <<1, 2, 4, cpus, cpus * 2>>
    /\ original_workers' = num_workers
    /\ worker_pc' = "benchmark"
    /\ UNCHANGED <<cpus, num_workers, executor>>
    /\ UNCHANGED <<cache_vars, run_vars, grouper_vars, classifier_vars, session_vars, smart_vars>>

\* one turn of the loop: self.num_workers = workers, then analyze_directory
benchmark_workers ==
    /\ worker_pc = "benchmark"
    /\ worker_counts # <<>>
    /\ IF Head(worker_counts) <= cpus * 2
       THEN /\ num_workers' = Head(worker_counts)
            /\ worker_pc' = "benchmark_run"
       ELSE UNCHANGED <<num_workers, worker_pc>>
    /\ worker_counts' = Tail(worker_counts)
    /\ UNCHANGED <<cpus, original_workers, executor>>
    /\ UNCHANGED <<cache_vars, run_vars, grouper_vars, classifier_vars, session_vars, smart_vars>>

\* after the loop: self.num_workers = original_workers
benchmark_returns ==
    /\ worker_pc = "benchmark"
    /\ worker_counts = <<>>
    /\ num_workers' = original_workers
    /\ worker_pc' = "ready"
    /\ UNCHANGED <<cpus, original_workers, worker_counts, executor>>
    /\ UNCHANGED <<cache_vars, run_vars, grouper_vars, classifier_vars, session_vars, smart_vars>>

InitWorkers ==
    /\ CacheIdle
    /\ RunIdle
    /\ GrouperIdle
    /\ ClassifierIdle
    /\ SessionsIdle
    /\ SmartIdle
    /\ cpus \in CpuCounts
    /\ num_workers = 0
    /\ original_workers = 0
    /\ worker_counts = <<>>
    /\ executor = NotRun
    /\ worker_pc = "new"

NextWorkers ==
    \/ \E argument \in NumWorkersArguments : construct(argument)
    \/ \E chunk_files \in 1..MaxChunkFiles : _process_chunk(chunk_files)
    \/ thread_starts
    \/ thread_finishes
    \/ chunk_done
    \/ benchmark_performance
    \/ benchmark_workers
    \/ benchmark_returns

SpecWorkers == InitWorkers /\ [][NextWorkers]_vars

\* C27: the number of workers of an analyzer is always min(available
\* parallelism, 8), so never above 8, whatever is passed to the constructor
\* or set during benchmark_performance, and never are more files than that
\* being processed at the same time.
C27_WorkersCappedAtEight ==
    worker_pc # "new" =>
        /\ num_workers = Min(cpus, 8)
        /\ num_workers <= 8
        /\ executor # NotRun => executor.running <= num_workers

\* ------------------------------------------------------------------------
\* SmartParallelAnalyzer.analyze_files (smart_parallel_analyzer.py)
\* ------------------------------------------------------------------------
\* Files are numbered; what os.stat and the suffix give for a file is fixed
\* during the call.  processing_time is left out of FileResult.
MaxSmartFiles == 4

SmartFiles == 1..MaxSmartFiles

\* Path(filepath).suffix.lower(), os.stat(filepath): four kinds of file in turn
SmartStat(filepath) ==
    CASE filepath % 4 = 1 -> [suffix |-> ".py", exists |-> TRUE, st_size |-> 10]
      [] filepath % 4 = 2 -> [suffix |-> ".jpg", exists |-> TRUE, st_size |-> 20]
      [] filepath % 4 = 3 -> [suffix |-> ".dat", exists |-> TRUE, st_size |-> 0]
      [] OTHER -> [suffix |-> ".py", exists |-> FALSE, st_size |-> 0]

smart_categories ==
    << <<"Images", {".jpg", ".jpeg", ".png", ".gif", ".bmp", ".tiff", ".svg", ".webp", ".heic"}>>,
       <<"Documents", {".pdf", ".doc", ".docx", ".txt", ".rtf", ".odt"}>>,
       <<"Spreadsheets", {".xlsx", ".xls", ".csv", ".ods"}>>,
       <<"Presentations", {".pptx", ".ppt", ".odp"}>>,
       <<"Code", {".py", ".js", ".ts", ".java", ".cpp", ".c", ".html", ".css", ".sql", ".json"}>>,
       <<"Archives", {".zip", ".tar", ".gz", ".rar", ".7z"}>>,
       <<"Audio", {".mp3", ".wav", ".flac", ".aac", ".ogg"}>>,
       <<"Video", {".mp4", ".avi", ".mov", ".mkv", ".wmv"}>>,
       <<"Other", {}>> >>

\* _get_file_category: the first category that lists the suffix
_get_file_category(filepath) ==
    LET ext == SmartStat(filepath).suffix
        hit == FirstIndex({k \in 1..Len(smart_categories) : ext \in smart_categories[k][2]})
    IN  IF hit = 0 THEN "Other" ELSE smart_categories[hit][1]

\* _analyze_single_file: os.stat raising gives the "Error" result
_analyze_single_file(filepath, worker_id) ==
    IF SmartStat(filepath).exists
    THEN [filepath |-> filepath, category |-> _get_file_category(filepath),
          size |-> SmartStat(filepath).st_size, worker_id |-> worker_id]
    ELSE [filepath |-> filepath, category |-> "Error", size |-> 0,
          worker_id |-> worker_id]

\* _process_serial
_process_serial(file_paths_) ==
    [i \in 1..Len(file_paths_) |-> _analyze_single_file(file_paths_[i], 0)]

\* process_file_chunk, run in a worker process
process_file_chunk(file_paths_, worker_id) ==
    [i \in 1..Len(file_paths_) |-> _analyze_single_file(file_paths_[i], worker_id)]

\* chunks beyond the number of workers are not submitted
one_chunk_per_worker(file_paths_) ==
    LET chunk_size_ == Max(1, Len(file_paths_) \div max_workers)
        count == Min(max_workers, (Len(file_paths_) + chunk_size_ - 1) \div chunk_size_)
    IN  [k \in 1..count |->
            SubSeq(file_paths_, (k - 1) * chunk_size_ + 1,
                   Min(k * chunk_size_, Len(file_paths_)))]

\* chunk_size = max(1, len(file_paths) // self.max_workers) and the slices
\* file_paths[i:i + chunk_size] for i in range(0, len(file_paths), chunk_size)
split_chunks(file_paths_) ==
    LET chunk_size_ == Max(1, Len(file_paths_) \div max_workers)
        count == (Len(file_paths_) + chunk_size_ - 1) \div chunk_size_
    IN  [k \in 1..count |->
            SubSeq(file_paths_, (k - 1) * chunk_size_ + 1,
                   Min(k * chunk_size_, Len(file_paths_)))]

\* _categorize_results: the number of results of each category that occurs
_categorize_results(results_) ==
    [c \in {results_[i].category : i \in 1..Len(results_)} |->
        Cardinality({i \in 1..Len(results_) : results_[i].category = c})]

\* analyze_files up to the choice of the method: the serial path is run at
\* once, the parallel path submits its chunks with worker ids 0, 1, ...
analyze_files ==
    /\ smart_pc = "idle"
    /\ IF Len(smart_paths) >= parallel_threshold
       THEN /\ smart_chunks' = split_chunks(smart_paths)
            /\ smart_futures' = 0..(Len(smart_chunks') - 1)
            /\ smart_results' = <<>>
            /\ smart_pc' = "parallel"
       ELSE /\ smart_results' = _process_serial(smart_paths)
            /\ smart_pc' = "categorize"
            /\ UNCHANGED <<smart_chunks, smart_futures>>
    /\ UNCHANGED <<max_workers, parallel_threshold, smart_paths, smart_done, smart_return>>
    /\ UNCHANGED <<cache_vars, run_vars, grouper_vars, classifier_vars, session_vars, worker_vars>>

\* a worker process finishes its chunk
worker_finishes(worker_id) ==
    /\ smart_pc = "parallel"
    /\ worker_id \in smart_futures
    /\ smart_futures' = smart_futures \ {worker_id}
    /\ smart_done' = smart_done \cup {worker_id}
    /\ UNCHANGED <<max_workers, parallel_threshold, smart_paths, smart_chunks,
                   smart_results, smart_return, smart_pc>>
    /\ UNCHANGED <<cache_vars, run_vars, grouper_vars, classifier_vars, session_vars, worker_vars>>

\* as_completed yields a finished future: results.extend(future.result())
collect_chunk(worker_id) ==
    /\ smart_pc = "parallel"
    /\ worker_id \in smart_done
    /\ smart_done' = smart_done \ {worker_id}
    /\ smart_results' = smart_results
                          \o process_file_chunk(smart_chunks[worker_id + 1], worker_id)
    /\ UNCHANGED <<max_workers, parallel_threshold, smart_paths, smart_chunks,
                   smart_futures, smart_return, smart_pc>>
    /\ UNCHANGED <<cache_vars, run_vars, grouper_vars, classifier_vars, session_vars, worker_vars>>

\* _process_parallel returns
parallel_returns ==
    /\ smart_pc = "parallel"
    /\ smart_futures = {}
    /\ smart_done = {}
    /\ smart_pc' = "categorize"
    /\ UNCHANGED <<max_workers, parallel_threshold, smart_paths, smart_chunks,
                   smart_futures, smart_done, smart_results, smart_return>>
    /\ UNCHANGED <<cache_vars, run_vars, grouper_vars, classifier_vars, session_vars, worker_vars>>

\* analyze_files from categories = self._categorize_results(results) on
analyze_files_returns ==
    /\ smart_pc = "categorize"
    /\ smart_return' =
          [op |-> "analyze_files",
           category_counts |-> _categorize_results(smart_results),
           processing_method |-> IF Len(smart_paths) >= parallel_threshold
                                 THEN "parallel" ELSE "serial",
           files_processed |-> Len(smart_paths)]
    /\ smart_pc' = "done"
    /\ UNCHANGED <<max_workers, parallel_threshold, smart_paths, smart_chunks,
                   smart_futures, smart_done, smart_results>>
    /\ UNCHANGED <<cache_vars, run_vars, grouper_vars, classifier_vars, session_vars, worker_vars>>

\* the lists os.walk can give: every order of every set of files
SmartFileLists ==
    UNION {{l \in [1..n -> SmartFiles] : \A i, j \in 1..n : i # j => l[i] # l[j]} :
              n \in 0..MaxSmartFiles}

ParallelThresholds == {0, 3, 10}

SmartCpuCounts == {1, 2, 16}

InitSmart ==
    /\ CacheIdle
    /\ RunIdle
    /\ GrouperIdle
    /\ ClassifierIdle
    /\ SessionsIdle
    /\ WorkersIdle
    /\ \E cpu \in SmartCpuCounts : max_workers = Min(cpu, 8)
    /\ parallel_threshold \in ParallelThresholds
    /\ smart_paths \in SmartFileLists
    /\ smart_chunks = <<>>
    /\ smart_futures = {}
    /\ smart_done = {}
    /\ smart_results = <<>>
    /\ smart_return = NotRun
    /\ smart_pc = "idle"

NextSmart ==
    \/ analyze_files
    \/ \E worker_id \in 0..(MaxSmartFiles - 1) : worker_finishes(worker_id)
    \/ \E worker_id \in 0..(MaxSmartFiles - 1) : collect_chunk(worker_id)
    \/ parallel_returns
    \/ analyze_files_returns

SpecSmart == InitSmart /\ [][NextSmart]_vars

\* a result without its worker id
PathCategorySize(result) == <<result.filepath, result.category, result.size>>

TimesIn(results_, x) ==
    Cardinality({k \in 1..Len(results_) : PathCategorySize(results_[k]) = x})

SameMultiset(a, b) ==
    /\ Len(a) = Len(b)
    /\ \A k \in 1..Len(a) :
          TimesIn(a, PathCategorySize(a[k])) = TimesIn(b, PathCategorySize(a[k]))

RECURSIVE SumCounts(_, _)
SumCounts(counts, keys) ==
    IF keys = {} THEN 0
    ELSE LET c == CHOOSE k \in keys : TRUE
         IN  counts[c] + SumCounts(counts, keys \ {c})

====
